---- MODULE Spec2Model ----
(***************************************************************************)
(* WebviewEditorService (webviewEditorService.ts): the reviver registry    *)
(* (_revivers), the revival queue (_awaitingRevival), the deferred-        *)
(* population callback built by reviveWebview, registerReviver and its     *)
(* disposable, canRevive and tryRevive.                                    *)
(*                                                                         *)
(* JavaScript runs one job at a time, so every action below is one         *)
(* uninterrupted synchronous stretch of code; the suspension points are    *)
(* the two awaits (callback line 140, tryRevive line 189) and the .then of *)
(* line 165.                                                               *)
(***************************************************************************)
EXTENDS Integers, Sequences, FiniteSets, TLC

\* Number of reviveWebview calls explored (each builds one new panel).
MaxPanels == 2

Panels == 1..MaxPanels

ViewTypes == {"markdown.preview", "other.type"}

\* Editor group identifiers, and the symbolic group createWebview may be given.
GroupIds == {"g1", "g2"}

ShowGroups == GroupIds \cup {"ACTIVE_GROUP"}

\* The revivers that extensions may register, and the view types each claims.
Revivers == {"rA", "rB"}

ReviverViewTypes ==
    [r \in Revivers |->
        CASE r = "rA" -> {"other.type"}
          [] r = "rB" -> {"markdown.preview", "other.type"}]

VARIABLES
    revivers,         \* _revivers: a Set, kept as its insertion-ordered sequence
    awaitingRevival,  \* _awaitingRevival: sequence of {input, resolve}
    viewType,         \* viewType of each panel built by reviveWebview ("" = not built)
    cb,               \* position of each panel's deferred-population callback
    signal,           \* state of the promise the callback returned
    reviving,         \* reviver.reviveWebview promises still pending
    invoked,          \* invoked[r][p]: number of calls r.reviveWebview(p)
    failed,           \* panels whose reviver.reviveWebview promise rejected
    handles,          \* revivers for which registerReviver returned a disposable
    registeredSince,  \* registeredSince[p]: p still waits for a reviver and a
                      \* registerReviver ran since p's callback started
    canReviveResult,  \* what canRevive returned to its caller, when the last step
                      \* was a canRevive call: its argument and result
    resolveCalls,     \* resolveCalls[p]: number of calls of the resolve of p's entry
    lastOp,           \* lastOp[r]: the last of registerReviver(r) / r's disposable
    group,            \* webview.group of each panel ("unset" = not placed yet)
    groupViews,       \* the group ids _editorGroupService.getGroup resolves
    editorCalls       \* the requests the last step made to _editorService and to
                      \* group views, when it was createWebview or revealWebview

serviceVars == <<revivers, awaitingRevival, viewType, cb, signal, reviving, invoked,
                 failed, handles, registeredSince, canReviveResult, resolveCalls, lastOp>>

serviceVars_noResult ==
    <<revivers, awaitingRevival, viewType, cb, signal, reviving, invoked, failed,
      handles, registeredSince, resolveCalls, lastOp>>

editorVars == <<group, groupViews>>

vars == <<serviceVars, editorVars, editorCalls>>

----------------------------------------------------------------------------
(* Helpers *)

Range(s) == {s[i] : i \in 1..Len(s)}

\* The panels that have a pending entry in the queue.
QueueInputs == {awaitingRevival[i].input : i \in 1..Len(awaitingRevival)}

\* How many entries of the queue are for panel p.
EntriesFor(p) == Cardinality({i \in 1..Len(awaitingRevival) : awaitingRevival[i].input = p})

RECURSIVE SumOver(_, _, _)
SumOver(S, f, p) ==
    IF S = {} THEN 0
    ELSE LET r == CHOOSE x \in S : TRUE IN f[r][p] + SumOver(S \ {r}, f, p)

\* Number of reviveWebview invocations for p, all revivers together.
InvokedTotal(p) == SumOver(Revivers, invoked, p)

Created == {p \in Panels : viewType[p] # ""}

----------------------------------------------------------------------------
(* WebviewReviver.canRevive: a reviver claims a panel by its view type. *)
ReviverCanRevive(reviver, webview) == viewType[webview] \in ReviverViewTypes[reviver]

(* Set.add / Set.delete on the insertion-ordered set. *)
SetAddAgain(s, reviver) == Append(s, reviver)

SetAdd(s, reviver) == IF reviver \in Range(s) THEN s ELSE Append(s, reviver)

SetDeleteAll(s, reviver) == << >>

SetDelete(s, reviver) == SelectSeq(s, LAMBDA x : x # reviver)

(* canRevive, lines 173-182: iterate the registry, true on the first match. *)
RECURSIVE canReviveFrom(_, _)
canReviveFrom(i, webview) ==
    IF i > Len(revivers) THEN FALSE
    ELSE IF ReviverCanRevive(revivers[i], webview) THEN TRUE
    ELSE canReviveFrom(i + 1, webview)

canReviveFirstOnly(webview) ==
    Len(revivers) > 0 /\ ReviverCanRevive(revivers[1], webview)

canRevive(webview) == canReviveFrom(1, webview)

(* tryRevive, lines 187-193: index of the first registered reviver that     *)
(* claims the panel, 0 when the loop falls through to `return false`.       *)
RECURSIVE tryReviveFrom(_, _)
tryReviveFrom(i, webview) ==
    IF i > Len(revivers) THEN 0
    ELSE IF ReviverCanRevive(revivers[i], webview) THEN i
    ELSE tryReviveFrom(i + 1, webview)

tryReviveLast(webview) ==
    LET m == {i \in 1..Len(revivers) : ReviverCanRevive(revivers[i], webview)}
    IN  IF m = {} THEN 0 ELSE CHOOSE i \in m : \A j \in m : j <= i

tryRevive(webview) == tryReviveFrom(1, webview)

(* Line 148: this._awaitingRevival.push({ input: webview, resolve }).       *)
(* resolve settles the promise the callback of that panel returned.         *)
PushTwice(queue, webview) ==
    queue \o << [input |-> webview, resolve |-> webview],
                [input |-> webview, resolve |-> webview] >>

PushNothing(queue, webview) == queue

Push(queue, webview) == Append(queue, [input |-> webview, resolve |-> webview])

(* Line 161: the entries the new reviver claims, in queue order. *)
ToReviveAll(queue, reviver) == queue

ToRevive(queue, reviver) ==
    SelectSeq(queue, LAMBDA x : ReviverCanRevive(reviver, x.input))

(* Line 162: the entries that stay queued. *)
StillAwaitingAll(queue, reviver) == queue

StillAwaitingNone(queue, reviver) == << >>

StillAwaiting(queue, reviver) ==
    SelectSeq(queue, LAMBDA x : ~ReviverCanRevive(reviver, x.input))

\* Number of entries of a sequence of queue entries that are for panel p.
CountIn(seq, p) == Cardinality({i \in 1..Len(seq) : seq[i].input = p})

----------------------------------------------------------------------------
\* canReviveResult when the last step was not a canRevive call.
NoCall == [input |-> 0, result |-> FALSE]

Init ==
    /\ revivers = << >>
    /\ awaitingRevival = << >>
    /\ viewType = [p \in Panels |-> ""]
    /\ cb = [p \in Panels |-> "notCreated"]
    /\ signal = [p \in Panels |-> "none"]
    /\ reviving = {}
    /\ invoked = [r \in Revivers |-> [p \in Panels |-> 0]]
    /\ failed = {}
    /\ handles = {}
    /\ registeredSince = [p \in Panels |-> FALSE]
    /\ canReviveResult = NoCall
    /\ resolveCalls = [p \in Panels |-> 0]
    /\ lastOp = [r \in Revivers |-> "none"]
    /\ group = [p \in Panels |-> "unset"]
    /\ groupViews = {"g1"}
    /\ editorCalls = << >>

ReviveWebviewEnqueues(vt) ==
    /\ \E p \in Panels :
          /\ cb[p] = "notCreated"
          /\ \A q \in Panels : q < p => cb[q] # "notCreated"
          /\ viewType' = [viewType EXCEPT ![p] = vt]
          /\ cb' = [cb EXCEPT ![p] = "unstarted"]
          /\ awaitingRevival' = Push(awaitingRevival, p)
    /\ UNCHANGED <<revivers, signal, reviving, invoked, failed,
                   handles, registeredSince>>
    /\ canReviveResult' = NoCall
    /\ editorCalls' = << >>
    /\ UNCHANGED <<resolveCalls, lastOp, group, groupViews>>

(* reviveWebview, lines 130-153: builds the input and returns it; the       *)
(* callback is only handed to the input, it does not run here.              *)
ReviveWebview(vt) ==
    /\ \E p \in Panels :
          /\ cb[p] = "notCreated"
          /\ \A q \in Panels : q < p => cb[q] # "notCreated"
          /\ viewType' = [viewType EXCEPT ![p] = vt]
          /\ cb' = [cb EXCEPT ![p] = "unstarted"]
    /\ UNCHANGED <<revivers, awaitingRevival, signal, reviving, invoked, failed,
                   handles, registeredSince>>
    /\ canReviveResult' = NoCall
    /\ editorCalls' = << >>
    /\ UNCHANGED <<resolveCalls, lastOp, group, groupViews>>

(* The input starts its population: it may do so once.  *)
MayStartPopulation(p) == cb[p] = "unstarted"

(* Callback line 140 with the synchronous part of tryRevive (187-189): the  *)
(* loop over the registry runs at once; on a match the reviver is called    *)
(* and tryRevive suspends on it, otherwise tryRevive returns false and the  *)
(* callback resumes in a later job.                                         *)
StartPopulation(p) ==
    /\ MayStartPopulation(p)
    /\ signal' = [signal EXCEPT ![p] = "pending"]
    /\ registeredSince' = [registeredSince EXCEPT ![p] = FALSE]
    /\ LET i == tryRevive(p) IN
         IF i # 0
         THEN /\ invoked' = [invoked EXCEPT ![revivers[i]][p] = @ + 1]
              /\ reviving' = reviving \cup
                     {[reviver |-> revivers[i], input |-> p, via |-> "tryRevive"]}
              /\ cb' = [cb EXCEPT ![p] = "inTryRevive"]
         ELSE /\ cb' = [cb EXCEPT ![p] = "afterTryRevive"]
              /\ UNCHANGED <<invoked, reviving>>
    /\ UNCHANGED <<revivers, awaitingRevival, viewType, failed, handles>>
    /\ canReviveResult' = NoCall
    /\ editorCalls' = << >>
    /\ UNCHANGED <<resolveCalls, lastOp, group, groupViews>>

(* Callback lines 141-149 when didRevive is false: push the entry and       *)
(* return the promise that only the entry's resolve settles.                *)
Enqueue(p) ==
    /\ cb[p] = "afterTryRevive"
    /\ awaitingRevival' = Push(awaitingRevival, p)
    /\ cb' = [cb EXCEPT ![p] = "returned"]
    /\ UNCHANGED <<revivers, viewType, signal, reviving, invoked, failed, handles,
                   registeredSince>>
    /\ canReviveResult' = NoCall
    /\ editorCalls' = << >>
    /\ UNCHANGED <<resolveCalls, lastOp, group, groupViews>>

(* registerReviver, lines 155-171. *)
RegisterReviver(reviver) ==
    LET toRevive == ToRevive(awaitingRevival, reviver) IN
    /\ revivers' = SetAdd(revivers, reviver)
    /\ awaitingRevival' = StillAwaiting(awaitingRevival, reviver)
    /\ invoked' = [invoked EXCEPT ![reviver] =
                       [p \in Panels |-> @[p] + CountIn(toRevive, p)]]
    /\ reviving' = reviving \cup
           {[reviver |-> reviver, input |-> toRevive[i].input, via |-> "queue"] :
                i \in 1..Len(toRevive)}
    /\ handles' = handles \cup {reviver}
    /\ registeredSince' = [p \in Panels |->
                              \/ cb[p] = "afterTryRevive"
                              \/ \E i \in 1..Len(awaitingRevival') :
                                    awaitingRevival'[i].input = p]
    /\ UNCHANGED <<viewType, cb, signal, failed>>
    /\ canReviveResult' = NoCall
    /\ lastOp' = [lastOp EXCEPT ![reviver] = "register"]
    /\ editorCalls' = << >>
    /\ UNCHANGED <<resolveCalls, group, groupViews>>

(* The disposable of lines 168-170. *)
Dispose(reviver) ==
    /\ reviver \in handles
    /\ revivers' = SetDelete(revivers, reviver)
    /\ UNCHANGED <<awaitingRevival, viewType, cb, signal, reviving, invoked, failed,
                   handles, registeredSince>>
    /\ canReviveResult' = NoCall
    /\ lastOp' = [lastOp EXCEPT ![reviver] = "dispose"]
    /\ editorCalls' = << >>
    /\ UNCHANGED <<resolveCalls, group, groupViews>>

(* What the fulfilment of reviver.reviveWebview(p) does to the promise the  *)
(* callback returned: on the tryRevive path the awaits of lines 189 and 140 *)
(* resume and the callback returns (line 142); on the queue path the .then  *)
(* handler of line 165 calls input.resolve.  Neither looks at the registry; *)
(* settling a settled promise changes nothing.                              *)
OnFulfilledIfRegistered(sig, x) ==
    [sig EXCEPT ![x.input] =
        IF @ = "pending" /\ x.reviver \in Range(revivers) THEN "resolved" ELSE @]

OnFulfilled(sig, x) ==
    [sig EXCEPT ![x.input] = IF @ = "pending" THEN "resolved" ELSE @]

\* Line 165: only the queue path calls the entry's resolve.
ResolveCallsOnFulfilled(x) == IF x.via = "queue" THEN 1 ELSE 0

(* reviver.reviveWebview(p) fulfils.  From tryRevive (189-190, 141-143) the *)
(* callback's promise is fulfilled; from the queue (165) the .then handler  *)
(* calls the entry's resolve.                                               *)
RevivalFulfilled(x) ==
    /\ x \in reviving
    /\ reviving' = reviving \ {x}
    /\ signal' = OnFulfilled(signal, x)
    /\ cb' = [cb EXCEPT ![x.input] = "returned"]
    /\ UNCHANGED <<revivers, awaitingRevival, viewType, invoked, failed, handles,
                   registeredSince>>
    /\ canReviveResult' = NoCall
    /\ resolveCalls' = [resolveCalls EXCEPT ![x.input] = @ + ResolveCallsOnFulfilled(x)]
    /\ editorCalls' = << >>
    /\ UNCHANGED <<lastOp, group, groupViews>>

(* reviver.reviveWebview(p) rejects.  From tryRevive the await of line 189  *)
(* throws, tryRevive rejects, the await of line 140 throws and the          *)
(* callback's promise rejects.  From the queue the .then of line 165 has no *)
(* rejection handler: resolve is not called.                                *)
RevivalRejected(x) ==
    /\ x \in reviving
    /\ reviving' = reviving \ {x}
    /\ failed' = failed \cup {x.input}
    /\ IF x.via = "tryRevive"
       THEN /\ signal' = [signal EXCEPT ![x.input] = "rejected"]
            /\ cb' = [cb EXCEPT ![x.input] = "returned"]
       ELSE UNCHANGED <<signal, cb>>
    /\ UNCHANGED <<revivers, awaitingRevival, viewType, invoked, handles,
                   registeredSince>>
    /\ canReviveResult' = NoCall
    /\ editorCalls' = << >>
    /\ UNCHANGED <<resolveCalls, lastOp, group, groupViews>>

(* A caller asks canRevive(p), lines 173-182. *)
CanRevive(p) ==
    /\ p \in Created
    /\ canReviveResult' = [input |-> p, result |-> canRevive(p)]
    /\ editorCalls' = << >>
    /\ UNCHANGED <<resolveCalls, lastOp, group, groupViews>>
    /\ UNCHANGED <<revivers, awaitingRevival, viewType, cb, signal, reviving, invoked,
                   failed, handles, registeredSince>>

Next ==
    \/ \E vt \in ViewTypes : ReviveWebview(vt)
    \/ \E p \in Panels : StartPopulation(p)
    \/ \E p \in Panels : Enqueue(p)
    \/ \E r \in Revivers : RegisterReviver(r)
    \/ \E r \in Revivers : Dispose(r)
    \/ \E x \in reviving : RevivalFulfilled(x)
    \/ \E x \in reviving : RevivalRejected(x)
    \/ \E p \in Panels : CanRevive(p)

Spec == Init /\ [][Next]_vars

(* The service while every reconstruction fulfils.  A suspended callback is *)
(* resumed by the job queue (line 140), and a reconstruction that was       *)
(* started ends: both are weakly fair.  Registrations, disposals and the    *)
(* start of a population are the callers' choice and are not.               *)
ReviveRecords == [reviver : Revivers, input : Panels, via : {"tryRevive", "queue"}]

LiveNext ==
    \/ \E vt \in ViewTypes : ReviveWebview(vt)
    \/ \E p \in Panels : StartPopulation(p)
    \/ \E p \in Panels : Enqueue(p)
    \/ \E r \in Revivers : RegisterReviver(r)
    \/ \E r \in Revivers : Dispose(r)
    \/ \E x \in reviving : RevivalFulfilled(x)
    \/ \E p \in Panels : CanRevive(p)

LiveSpec ==
    /\ Init /\ [][LiveNext]_vars
    /\ \A p \in Panels : WF_vars(Enqueue(p))
    /\ \A x \in ReviveRecords : WF_vars(RevivalFulfilled(x))

----------------------------------------------------------------------------
(* createWebview and revealWebview, with the editor collaborators *)

\* A request to _editorService.openEditor (view = "editorService") or to
\* the moveEditor of the view of a group (view = that group's id).
OpenEditorCall(webview, pinned, preserveFocus, target) ==
    [op |-> "openEditor", view |-> "editorService", input |-> webview,
     pinned |-> pinned, preserveFocus |-> preserveFocus, group |-> target]

MoveEditorCall(view, webview, preserveFocus, target) ==
    [op |-> "moveEditor", view |-> view, input |-> webview,
     pinned |-> FALSE, preserveFocus |-> preserveFocus, group |-> target]

(* _editorGroupService.getGroup(id): the live view of that group, if any. *)
getGroup(id) == IF id \in groupViews THEN id ELSE "undefined"

(* revealWebview, lines 120-127: the requests it makes. *)
revealCallsAlwaysMove(webview, target, preserveFocus) ==
    LET groupView == getGroup(group[webview]) IN
    IF groupView # "undefined"
    THEN << MoveEditorCall(groupView, webview, preserveFocus, target) >>
    ELSE << >>

revealCallsTargetView(webview, target, preserveFocus) ==
    IF group[webview] = target
    THEN << OpenEditorCall(webview, FALSE, preserveFocus, group[webview]) >>
    ELSE LET groupView == getGroup(target) IN
         IF groupView # "undefined"
         THEN << MoveEditorCall(groupView, webview, preserveFocus, target) >>
         ELSE << >>

revealCalls(webview, target, preserveFocus) ==
    IF group[webview] = target
    THEN << OpenEditorCall(webview, FALSE, preserveFocus, group[webview]) >>
    ELSE LET groupView == getGroup(group[webview]) IN
         IF groupView # "undefined"
         THEN << MoveEditorCall(groupView, webview, preserveFocus, target) >>
         ELSE << >>

(* createWebview, lines 102-113: builds a plain input (it has no            *)
(* deferred-population callback) and asks the editor service to show it.    *)
CreateWebview(vt, showGroup, preserveFocus) ==
    /\ \E p \in Panels :
          /\ cb[p] = "notCreated"
          /\ \A q \in Panels : q < p => cb[q] # "notCreated"
          /\ viewType' = [viewType EXCEPT ![p] = vt]
          /\ cb' = [cb EXCEPT ![p] = "noCallback"]
          /\ editorCalls' = << OpenEditorCall(p, TRUE, preserveFocus, showGroup) >>
    /\ canReviveResult' = NoCall
    /\ UNCHANGED <<revivers, awaitingRevival, signal, reviving, invoked, failed,
                   handles, registeredSince, resolveCalls, lastOp, group, groupViews>>

(* revealWebview, lines 115-128. *)
RevealWebview(webview, target, preserveFocus) ==
    /\ webview \in Created
    /\ editorCalls' = revealCalls(webview, target, preserveFocus)
    /\ canReviveResult' = NoCall
    /\ UNCHANGED <<revivers, awaitingRevival, viewType, cb, signal, reviving, invoked,
                   failed, handles, registeredSince, resolveCalls, lastOp, group,
                   groupViews>>

(* The editor group system shows or moves a panel: it sets webview.group.   *)
(* Explored for the panels createWebview built.                             *)
EditorPlaces(webview, g) ==
    /\ cb[webview] = "noCallback"
    /\ g \in groupViews
    /\ group[webview] # g
    /\ group' = [group EXCEPT ![webview] = g]
    /\ editorCalls' = << >>
    /\ canReviveResult' = NoCall
    /\ UNCHANGED <<serviceVars_noResult, groupViews>>

(* The editor group system opens a group, or closes an empty one. *)
GroupOpened(g) ==
    /\ g \notin groupViews
    /\ groupViews' = groupViews \cup {g}
    /\ editorCalls' = << >>
    /\ canReviveResult' = NoCall
    /\ UNCHANGED <<serviceVars_noResult, group>>

GroupClosed(g) ==
    /\ g \in groupViews
    /\ groupViews # {g}
    /\ \A p \in Panels : group[p] # g
    /\ groupViews' = groupViews \ {g}
    /\ editorCalls' = << >>
    /\ canReviveResult' = NoCall
    /\ UNCHANGED <<serviceVars_noResult, group>>

EditorNext ==
    \/ \E vt \in ViewTypes, g \in ShowGroups, f \in BOOLEAN : CreateWebview(vt, g, f)
    \/ \E p \in Panels, g \in GroupIds, f \in BOOLEAN : RevealWebview(p, g, f)
    \/ \E p \in Panels, g \in GroupIds : EditorPlaces(p, g)
    \/ \E g \in GroupIds : GroupOpened(g)
    \/ \E g \in GroupIds : GroupClosed(g)

(* createWebview and revealWebview alone, with the editor group system. *)
EditorSpec == Init /\ [][EditorNext]_vars

(* The operations of the service together. The editor group system is    *)
(* left out and the group arguments are fixed: they only decide the        *)
(* editor requests, which EditorSpec explores. Revivers fulfil here, as    *)
(* in LiveNext: a rejection reaches neither the registry nor the queue.    *)
ServiceNext ==
    \/ LiveNext
    \/ \E vt \in ViewTypes, f \in BOOLEAN : CreateWebview(vt, "ACTIVE_GROUP", f)
    \/ \E p \in Panels, f \in BOOLEAN : RevealWebview(p, "g1", f)

ServiceSpec == Init /\ [][ServiceNext]_vars

----------------------------------------------------------------------------
(* Vocabulary of the properties *)

\* Some reviver of the registry claims p.
Claimed(p) == \E r \in Range(revivers) : ReviverCanRevive(r, p)

\* p's callback started, found no reviver, and no registerReviver ran since.
JustRequested(p) ==
    /\ ~registeredSince[p]
    /\ cb[p] = "afterTryRevive" \/ p \in QueueInputs

\* p was handed to reviver r from the queue and r has not finished yet.
InFlightFromQueue(r, p) == [reviver |-> r, input |-> p, via |-> "queue"] \in reviving

----------------------------------------------------------------------------
(* C1: requestRevival for P (callback started while no registered reviver   *)
(* claims P) followed immediately by registerReviver(r) with r.canRevive(P),*)
(* before any other registration: r.reviveWebview is invoked exactly once   *)
(* for P and P is absent from the queue afterwards.                         *)
C1_RevivedByNextRegistration ==
    [][\A r \in Revivers, p \in Created :
          (RegisterReviver(r) /\ JustRequested(p) /\ ReviverCanRevive(r, p))
          => (invoked'[r][p] = 1 /\ p \notin QueueInputs'
              /\ cb'[p] # "afterTryRevive")]_vars

(* C2: registerReviver(r) splits the queue in one step: every entry queued  *)
(* before the call is afterwards either dispatched to r exactly once and    *)
(* gone from the queue, or still queued (once, in the same order) and not   *)
(* dispatched; panels that were not queued are not dispatched.              *)
C2_RegisterSplitsQueue ==
    [][\A r \in Revivers :
          RegisterReviver(r) =>
             /\ \A p \in Panels :
                   IF p \in QueueInputs
                   THEN \/ /\ invoked'[r][p] = invoked[r][p] + 1
                           /\ InFlightFromQueue(r, p)'
                           /\ p \notin QueueInputs'
                        \/ /\ invoked'[r][p] = invoked[r][p]
                           /\ ~InFlightFromQueue(r, p)'
                           /\ EntriesFor(p)' = 1
                   ELSE /\ invoked'[r][p] = invoked[r][p]
                        /\ p \notin QueueInputs'
             /\ \A r2 \in Revivers \ {r} : invoked'[r2] = invoked[r2]
             /\ awaitingRevival' =
                   SelectSeq(awaitingRevival, LAMBDA x : x.input \in QueueInputs')]_vars

C2_Witness ==
    \E p, q \in Created :
       /\ InFlightFromQueue("rA", p) /\ invoked["rA"][p] = 1
       /\ q \in QueueInputs /\ ~ReviverCanRevive("rA", q)
       /\ registeredSince[q] /\ handles = {"rA"}

(* C3: a queued panel is revived at most once: the invocations of           *)
(* reviveWebview for a panel, all revivers together, never exceed one; the  *)
(* step that takes the panel out of the queue is the step that invokes a    *)
(* reviver for it; a panel that has been dispatched is never queued again.  *)
C3_RevivedAtMostOnce ==
    /\ [](\A p \in Panels :
             /\ InvokedTotal(p) <= 1
             /\ InvokedTotal(p) > 0 => p \notin QueueInputs)
    /\ [][\A p \in Panels :
             /\ (p \in QueueInputs /\ p \notin QueueInputs')
                   <=> (p \in QueueInputs /\ InvokedTotal(p)' = InvokedTotal(p) + 1)
             /\ InvokedTotal(p)' >= InvokedTotal(p)]_vars

C3_Witness ==
    \E p \in Created, r \in Revivers :
       /\ InFlightFromQueue(r, p)
       /\ r \notin Range(revivers)
       /\ \E r2 \in Range(revivers) : ReviverCanRevive(r2, p)
       /\ InvokedTotal(p) = 1

(* C4: the queue holds at most one pending entry per panel. *)
C4_OneEntryPerPanel == \A p \in Panels : EntriesFor(p) <= 1

C4_Witness ==
    /\ Len(awaitingRevival) = 2
    /\ awaitingRevival[1].input # awaitingRevival[2].input

(* C5: two revivers that both claim a queued panel, registered one after    *)
(* the other: the first registration invokes its reviver for the panel, and *)
(* no other reviver is invoked for that panel in any later state.           *)
C5_FirstRegisteredWins ==
    /\ [](\A p \in Panels, r1, r2 \in Revivers :
             (r1 # r2 /\ invoked[r1][p] > 0) => invoked[r2][p] = 0)
    /\ [][\A p \in Panels, r1 \in Revivers :
             (RegisterReviver(r1) /\ p \in QueueInputs /\ ReviverCanRevive(r1, p))
             => invoked'[r1][p] = 1]_vars

C5_Witness ==
    \E p \in Created :
       /\ revivers = <<"rA", "rB">>
       /\ ReviverCanRevive("rA", p) /\ ReviverCanRevive("rB", p)
       /\ InFlightFromQueue("rA", p)
       /\ invoked["rA"][p] = 1 /\ invoked["rB"][p] = 0

(* C6: registering a reviver that claims none of the queued panels leaves   *)
(* the queue as it was and invokes that reviver for no panel.               *)
C6_NoMatchLeavesQueue ==
    [][\A r \in Revivers :
          (RegisterReviver(r) /\ \A p \in QueueInputs : ~ReviverCanRevive(r, p))
          => (awaitingRevival' = awaitingRevival /\ invoked' = invoked
              /\ reviving' = reviving)]_vars

C6_Witness ==
    /\ Len(awaitingRevival) = 2
    /\ revivers = <<"rA">> /\ handles = {"rA"}
    /\ \A p \in QueueInputs : ~ReviverCanRevive("rA", p) /\ registeredSince[p]
    /\ \A p \in Panels : invoked["rA"][p] = 0

(* C7: canRevive(P) is true exactly when some reviver of the registry       *)
(* claims P, false for an empty registry; a call returns that value.        *)
C7_CanReviveIffClaimed ==
    /\ [](\A p \in Created :
             /\ canRevive(p) <=> Claimed(p)
             /\ revivers = << >> => ~canRevive(p))
    /\ [][\A p \in Created :
             CanRevive(p) => canReviveResult' = [input |-> p, result |-> Claimed(p)]]_vars

C7_Witness ==
    \E p \in Created :
       /\ revivers = <<"rA", "rB">>
       /\ ~ReviverCanRevive("rA", p) /\ ReviverCanRevive("rB", p)
       /\ canReviveResult = [input |-> p, result |-> TRUE]

(* C8: the deregistration handle of r removes r from the registry (the      *)
(* other revivers stay, in order), canRevive afterwards counts only the     *)
(* remaining revivers, and the queue is exactly as it was.                  *)
C8_DisposeRemovesReviver ==
    [][\A r \in Revivers :
          Dispose(r) =>
             /\ r \notin Range(revivers')
             /\ revivers' = SelectSeq(revivers, LAMBDA x : x # r)
             /\ \A p \in Created :
                   canRevive(p)' <=>
                      \E r2 \in Range(revivers) \ {r} : ReviverCanRevive(r2, p)
             /\ awaitingRevival' = awaitingRevival
             /\ reviving' = reviving /\ invoked' = invoked]_vars

C8_Witness ==
    \E p \in Created :
       /\ "rA" \in handles /\ revivers = << >>
       /\ p \in QueueInputs /\ registeredSince[p]
       /\ ~ReviverCanRevive("rA", p)
       /\ canReviveResult = [input |-> p, result |-> FALSE]

(* C9: from an empty queue and a registry with no reviver that claims the   *)
(* panel, a call to requestRevival for that panel makes the queue length 1. *)
C9_RequestMakesLengthOne ==
    [][\A vt \in ViewTypes :
          (ReviveWebview(vt) /\ awaitingRevival = << >>
            /\ \A r \in Range(revivers) : vt \notin ReviverViewTypes[r])
          => Len(awaitingRevival') = 1]_vars

(* C9 amended: the call to requestRevival leaves the queue as it was; the   *)
(* queue gets its entry when the panel's deferred-population callback,      *)
(* having found no reviver, reaches its push: from an empty queue that step *)
(* makes the queue exactly the one entry of that panel.                     *)
C9_CallbackMakesLengthOne ==
    [][/\ \A vt \in ViewTypes : ReviveWebview(vt) => awaitingRevival' = awaitingRevival
       /\ \A p \in Panels :
             /\ StartPopulation(p) => awaitingRevival' = awaitingRevival
             /\ (Enqueue(p) /\ awaitingRevival = << >>)
                   => (Len(awaitingRevival') = 1 /\ awaitingRevival'[1].input = p)]_vars

C9_Witness ==
    /\ Len(awaitingRevival) = 1
    /\ revivers = << >> /\ handles = {}
    /\ cb[awaitingRevival[1].input] = "returned"
    /\ signal[awaitingRevival[1].input] = "pending"

(* C10: when a reviver's reconstruction fails, the failure reaches whoever  *)
(* awaits the panel's deferred-population callback (its promise rejects),   *)
(* on the tryRevive path and on the registerReviver path alike; the panel   *)
(* is not in the queue and no reviver is invoked for it again.              *)
C10_FailureReachesAwaiter ==
    \A p \in failed :
       /\ signal[p] = "rejected"
       /\ p \notin QueueInputs
       /\ InvokedTotal(p) = 1

(* C11: the resolve of a pending entry is called at most once, and only in  *)
(* the step in which the reconstruction by the reviver the entry was        *)
(* dispatched to fulfils; the signal is never resolved while the entry is   *)
(* queued or while a reconstruction for the panel is in flight.             *)
C11_ResolvedOnceAfterRevival ==
    /\ [](\A p \in Panels :
             /\ resolveCalls[p] <= 1
             /\ signal[p] = "resolved" =>
                   (p \notin QueueInputs /\ \A x \in reviving : x.input # p))
    /\ [][\A p \in Panels :
             resolveCalls'[p] # resolveCalls[p] =>
                \E r \in Revivers :
                   /\ InFlightFromQueue(r, p) /\ ~InFlightFromQueue(r, p)'
                   /\ invoked[r][p] = 1
                   /\ resolveCalls'[p] = 1 /\ signal[p] = "pending"
                   /\ signal'[p] = "resolved"]_vars

C11_Witness ==
    \E p \in Created :
       /\ resolveCalls[p] = 1 /\ signal[p] = "resolved"
       /\ InvokedTotal(p) = 1 /\ p \notin failed

(* C12: for every panel whose callback has started, once a reviver that     *)
(* claims it is in the registry, and with every reconstruction fulfilling,  *)
(* the promise the callback returned is eventually resolved.                *)
C12_NoRevivalLost ==
    \A p \in Panels :
       (cb[p] \notin {"notCreated", "unstarted"} /\ Claimed(p)) ~> (signal[p] = "resolved")

(* C13: revealWebview of a panel that already is in the target group     *)
(* makes exactly one openEditor request for the panel, in its current       *)
(* group and with the given focus flag, and no moveEditor request.          *)
C13_RevealInPlaceOnlyOpens ==
    [][\A p \in Panels, g \in GroupIds, f \in BOOLEAN :
          (RevealWebview(p, g, f) /\ group[p] = g) =>
             /\ Len(editorCalls') = 1
             /\ editorCalls'[1] = OpenEditorCall(p, FALSE, f, group[p])
             /\ \A i \in 1..Len(editorCalls') : editorCalls'[i].op # "moveEditor"]_vars

C13_Witness ==
    \E p \in Created :
       /\ group[p] \in GroupIds
       /\ editorCalls = << OpenEditorCall(p, FALSE, TRUE, group[p]) >>

C15_DisposeLeavesInFlight ==
    /\ [](\A x \in reviving : InvokedTotal(x.input) = 1 /\ x.input \notin QueueInputs)
    /\ [][/\ \A r \in Revivers :
                (Dispose(r) /\ \E x \in reviving : x.reviver = r)
                => /\ reviving' = reviving /\ awaitingRevival' = awaitingRevival
                   /\ invoked' = invoked /\ signal' = signal /\ cb' = cb
          /\ \A x \in reviving :
                (RevivalFulfilled(x) /\ x.reviver \notin Range(revivers))
                => signal'[x.input] = "resolved"]_vars

C15_Witness ==
    \E p \in Created, r \in Revivers :
       /\ InFlightFromQueue(r, p)
       /\ lastOp[r] = "dispose" /\ r \notin Range(revivers)
       /\ signal[p] = "pending" /\ p \notin QueueInputs

\* The earliest-registered reviver of the registry that claims p.
EarliestClaimer(p) ==
    revivers[CHOOSE i \in 1..Len(revivers) :
                /\ ReviverCanRevive(revivers[i], p)
                /\ \A j \in 1..(i - 1) : ~ReviverCanRevive(revivers[j], p)]

(* C16: when a panel's callback runs and some registered reviver claims the *)
(* panel, exactly the earliest-registered such reviver is invoked once, the *)
(* callback's promise resolves when that reconstruction fulfils and the     *)
(* panel is never queued; when none claims it, no reviver is invoked, the   *)
(* callback appends exactly one entry for the panel at the tail of the      *)
(* queue, and the promise stays pending while the panel waits.              *)
C16_CallbackMatchesOrQueues ==
    /\ [](\A p \in Panels :
             /\ cb[p] = "inTryRevive" =>
                   (signal[p] = "pending" /\ p \notin QueueInputs /\ InvokedTotal(p) = 1)
             /\ (cb[p] = "afterTryRevive" \/ p \in QueueInputs) =>
                   (signal[p] = "pending" /\ InvokedTotal(p) = 0))
    /\ [][\A p \in Panels :
             /\ StartPopulation(p) =>
                   /\ awaitingRevival' = awaitingRevival
                   /\ IF Claimed(p)
                      THEN /\ invoked' = [invoked EXCEPT ![EarliestClaimer(p)][p] = @ + 1]
                           /\ reviving' = reviving \cup
                                 {[reviver |-> EarliestClaimer(p), input |-> p,
                                   via |-> "tryRevive"]}
                           /\ cb'[p] = "inTryRevive"
                      ELSE /\ invoked' = invoked /\ reviving' = reviving
                           /\ cb'[p] = "afterTryRevive"
             /\ Enqueue(p) =>
                   /\ awaitingRevival' =
                         awaitingRevival \o << [input |-> p, resolve |-> p] >>
                   /\ invoked' = invoked /\ signal' = signal
             /\ (p \in QueueInputs' /\ p \notin QueueInputs) => cb[p] = "afterTryRevive"
             /\ \A r \in Revivers :
                   RevivalFulfilled([reviver |-> r, input |-> p, via |-> "tryRevive"])
                   => signal'[p] = "resolved"]_vars

C16_Witness ==
    \E p \in Created :
       /\ revivers = <<"rA", "rB">>
       /\ ReviverCanRevive("rA", p) /\ ReviverCanRevive("rB", p)
       /\ cb[p] = "inTryRevive"
       /\ invoked["rA"][p] = 1 /\ invoked["rB"][p] = 0

(* C17: createWebview, revealWebview, canRevive and the synchronous part  *)
(* of reviveWebview leave the registry and the queue as they are; the       *)
(* registry changes only in registerReviver and in a disposable, the queue  *)
(* only in registerReviver and in a panel's population callback.            *)
C17_OnlyMutators ==
    [][/\ (revivers' # revivers \/ awaitingRevival' # awaitingRevival)
          => ~( \/ \E vt \in ViewTypes, g \in ShowGroups, f \in BOOLEAN :
                      CreateWebview(vt, g, f)
                \/ \E p \in Panels, g \in GroupIds, f \in BOOLEAN :
                      RevealWebview(p, g, f)
                \/ \E p \in Panels : CanRevive(p)
                \/ \E vt \in ViewTypes : ReviveWebview(vt) )
       /\ revivers' # revivers
          => \E r \in Revivers : RegisterReviver(r) \/ Dispose(r)
       /\ awaitingRevival' # awaitingRevival
          => \/ \E r \in Revivers : RegisterReviver(r)
             \/ \E p \in Panels : StartPopulation(p) \/ Enqueue(p)]_vars

C17_Witness ==
    /\ Len(revivers) >= 1
    /\ Len(awaitingRevival) >= 1
    /\ \E p \in Created : cb[p] = "noCallback"
    /\ Len(editorCalls) = 1
    /\ editorCalls[1].op = "openEditor"

(* C18: no panel waiting in the queue is claimed by a reviver that is in    *)
(* the registry, in every interleaving of callbacks and registrations.      *)
C18_NoQueuedPanelClaimed == \A p \in QueueInputs : ~Claimed(p)

(* C19: the registry holds each reviver at most once; r is in it exactly    *)
(* when the last of registerReviver(r) and r's disposables was a            *)
(* registerReviver; registering a registered r leaves the registry as it    *)
(* is; any disposable of r removes r and nothing else.                      *)
C19_RegistryIsASet ==
    /\ [](/\ Len(revivers) = Cardinality(Range(revivers))
          /\ \A r \in Revivers : r \in Range(revivers) <=> lastOp[r] = "register")
    /\ [][\A r \in Revivers :
             /\ (RegisterReviver(r) /\ r \in Range(revivers)) => revivers' = revivers
             /\ (RegisterReviver(r) /\ r \notin Range(revivers))
                   => revivers' = revivers \o <<r>>
             /\ Dispose(r) =>
                   /\ r \notin Range(revivers')
                   /\ Range(revivers') = Range(revivers) \ {r}]_vars

C19_Witness ==
    /\ revivers = <<"rB">>
    /\ lastOp = [r \in Revivers |-> IF r = "rA" THEN "dispose" ELSE "register"]
    /\ handles = Revivers

====
